---- MODULE Spec2Model ----
(***************************************************************************)
(* Model of the order placement workflow of the e-commerce API             *)
(* (routes/orders.js) together with the product and cart handlers that     *)
(* change the rows it reads (routes/products.js, routes/carts.js).         *)
(*                                                                         *)
(* The remote store is modelled as five tables.   Every `await supabase...` *)
(* of a handler is one store call: it is executed atomically by the store  *)
(* and the handler goes on with its reply, so a handler with several store *)
(* calls is a sequence of steps that other requests may interleave with.   *)
(* The table schema is not part of the repository.  The one constraint the *)
(* source names is the foreign key of cart_items on carts (carts.js 340);  *)
(* the store of the model enforces that one and no other: no uniqueness    *)
(* and no other reference is checked by the store, the handlers' checks    *)
(* are the only other checks.                                              *)
(*                                                                         *)
(* Prices and totals are integers (minor units).                           *)
(***************************************************************************)
EXTENDS Integers, Sequences, FiniteSets, TLC

\* ---- bounds ----
MaxProducts == 1      \* product rows ever created
MaxPrice == 2         \* prices are 1..MaxPrice
MaxQuantity == 2      \* quantities are 2..MaxQuantity
MaxCarts == 1         \* cart rows ever created; cart ids in requests are 1..MaxCarts
MaxUsers == 1         \* user ids are 1..MaxUsers
MaxCartItems == 2     \* cart_items rows present at one time
MaxCalls == 2         \* PlaceOrder requests

ProductIds == 1..MaxProducts
Prices == 1..MaxPrice
\* Quantities above 1, so that quantity * price differs from price.
Quantities == 2..MaxQuantity
CartIds == 1..MaxCarts
UserIds == 1..MaxUsers
Calls == 1..MaxCalls

VARIABLES
    products,     \* products table: row id |-> [present, price]; ids are serial
    cart_items,   \* cart_items table: sequence of [cart_id, product_id, quantity]
    orders,       \* orders table: order id |-> [user_id, total_cost]; ids are serial
    order_items,  \* order_items table: sequence of [order_id, product_id, quantity]
    pc,           \* per PlaceOrder request: the store call it is about to make
    cartId,       \* req.params.cartId of the request
    userId,       \* req.user.userId of the request
    cartItems,    \* the rows the request read from cart_items (joined with price);
                  \* a local of the handler, <<>> again once it has returned with
                  \* an error, kept as history of a request that answered 201
    orderId,      \* orderData[0].id of the request, 0 before the header insert
    outcome,      \* what the request answered: "201" or the error given to next()
    precededBy,   \* history: the requests that had ended when this one began
    carts,        \* carts table: row id |-> [present, user_id]; ids are serial
    delPc,        \* the DELETE /carts/:cartId request: "idle" or "deleteCart"
    delCart,      \* req.params.cartId of the DELETE /carts/:cartId request
    getReply,     \* what the latest GET /orders/:orderId request answered
    authReply,    \* what authenticate did with the latest request it was given
    loginReply    \* what login did with the latest login request

vars == <<products, cart_items, orders, order_items,
          pc, cartId, userId, cartItems, orderId, outcome, precededBy,
          carts, delPc, delCart, getReply, authReply, loginReply>>

tables == <<products, cart_items, orders, order_items>>
callVars == <<pc, cartId, userId, cartItems, orderId, outcome, precededBy>>
cartVars == <<carts, delPc, delCart>>
authVars == <<authReply, loginReply>>

\* ---- pure helpers ----

\* The embedded resource `product:products ( price )` of one cart item:
\* the product row's price, or null (present = FALSE) when no row matches.
JoinProduct(pid) ==
    IF pid \in 1..Len(products) /\ products[pid].present
    THEN [present |-> TRUE, price |-> products[pid].price]
    ELSE [present |-> FALSE, price |-> 0]

RECURSIVE SelectCartRows(_, _)
SelectCartRows(rows, c) ==
    IF rows = <<>> THEN <<>>
    ELSE LET r == Head(rows)
             rest == SelectCartRows(Tail(rows), c)
         IN IF r.cart_id = c
            THEN <<[product_id |-> r.product_id, quantity |-> r.quantity,
                    product |-> JoinProduct(r.product_id)]>> \o rest
            ELSE rest

\* cartItems.reduce((sum, item) => sum + item.quantity * item.product.price, 0)
RECURSIVE TotalCost(_)
TotalCost(items) ==
    IF items = <<>> THEN 0
    ELSE Head(items).quantity * Head(items).product.price + TotalCost(Tail(items))

\* OrderItemsOf with the quantity of the cart item not copied.
OrderItemsOfUnitQuantity(oid, items) ==
    [i \in 1..Len(items) |->
        [order_id |-> oid, product_id |-> items[i].product_id, quantity |-> 1]]

\* cartItems.map((item) => ({ order_id, product_id, quantity }))
OrderItemsOf(oid, items) ==
    [i \in 1..Len(items) |->
        [order_id |-> oid, product_id |-> items[i].product_id,
         quantity |-> items[i].quantity]]

\* .delete().eq("cart_id", c) on cart_items
RECURSIVE DeleteCartRows(_, _)
DeleteCartRows(rows, c) ==
    IF rows = <<>> THEN <<>>
    ELSE IF Head(rows).cart_id = c THEN DeleteCartRows(Tail(rows), c)
         ELSE <<Head(rows)>> \o DeleteCartRows(Tail(rows), c)

\* .delete().eq("cart_id", c).eq("product_id", pid) on cart_items
RECURSIVE DeleteCartProductRows(_, _, _)
DeleteCartProductRows(rows, c, pid) ==
    IF rows = <<>> THEN <<>>
    ELSE IF Head(rows).cart_id = c /\ Head(rows).product_id = pid
         THEN DeleteCartProductRows(Tail(rows), c, pid)
         ELSE <<Head(rows)>> \o DeleteCartProductRows(Tail(rows), c, pid)

\* GET /orders/:orderId: the order row with its order_items, each joined live
\* with the product row (of which the model keeps the price).
OrderRows(oid) == SelectSeq(order_items, LAMBDA r : r.order_id = oid)

GetOrder(oid) ==
    LET rows == OrderRows(oid)
    IN [id |-> oid,
        total_cost |-> orders[oid].total_cost,
        order_items |-> [i \in 1..Len(rows) |->
                            [product_id |-> rows[i].product_id,
                             quantity |-> rows[i].quantity,
                             product |-> JoinProduct(rows[i].product_id)]]]

HasNullProduct(items) == \E i \in 1..Len(items) : ~items[i].product.present

\* ---- initial state: empty tables, no request yet ----
Init ==
    /\ products = <<>>
    /\ cart_items = <<>>
    /\ orders = <<>>
    /\ order_items = <<>>
    /\ pc = [p \in Calls |-> "idle"]
    /\ cartId = [p \in Calls |-> 0]
    /\ userId = [p \in Calls |-> 0]
    /\ cartItems = [p \in Calls |-> <<>>]
    /\ orderId = [p \in Calls |-> 0]
    /\ outcome = [p \in Calls |-> "none"]
    /\ precededBy = [p \in Calls |-> {}]
    /\ carts = <<>>
    /\ delPc = "idle"
    /\ delCart = 0
    /\ getReply = [orderId |-> 0, status |-> "none"]
    /\ authReply = [token |-> "none", sends |-> <<>>, nextCalled |-> FALSE]
    /\ loginReply = [email |-> "none", password |-> "none", storeError |-> FALSE,
                     sends |-> <<>>, queried |-> FALSE, token |-> FALSE]

\* ---- catalog handlers (routes/products.js) ----

\* POST /products: a missing or zero price is rejected before the insert.
CreateProduct(price) ==
    /\ Len(products) < MaxProducts
    /\ products' = Append(products, [present |-> TRUE, price |-> price])
    /\ UNCHANGED <<cart_items, orders, order_items>>
    /\ UNCHANGED callVars
    /\ UNCHANGED <<cartVars, getReply, authVars>>

\* PUT /products/:id: the row is fetched, then updated where id matches.
\* The update changes a row only if it still exists, so the effect on the
\* table is that of the update call alone.
UpdateProduct(id, price) ==
    /\ id \in 1..Len(products)
    /\ products[id].present
    /\ products[id].price # price
    /\ products' = [products EXCEPT ![id].price = price]
    /\ UNCHANGED <<cart_items, orders, order_items>>
    /\ UNCHANGED callVars
    /\ UNCHANGED <<cartVars, getReply, authVars>>

\* DELETE /products/:id
DeleteProduct(id) ==
    /\ id \in 1..Len(products)
    /\ products[id].present
    /\ products' = [products EXCEPT ![id] = [present |-> FALSE, price |-> 0]]
    /\ UNCHANGED <<cart_items, orders, order_items>>
    /\ UNCHANGED callVars
    /\ UNCHANGED <<cartVars, getReply, authVars>>

\* ---- cart handlers (routes/carts.js) ----

CartExists(c) == c \in 1..Len(carts) /\ carts[c].present

\* POST /carts: the request's user is looked up, then the cart row is inserted.
\* The users of the model are registered users.
CreateCartUpTo(u, n) ==
    /\ Len(carts) < n
    /\ carts' = Append(carts, [present |-> TRUE, user_id |-> u])
    /\ UNCHANGED <<delPc, delCart, getReply, authVars>>
    /\ UNCHANGED tables
    /\ UNCHANGED callVars

CreateCart(u) == CreateCartUpTo(u, MaxCarts)

\* POST /carts/:cartId/products: a missing or zero productId or quantity is
\* rejected with BadRequestError before the insert; the store rejects a row
\* whose cart does not exist.  A rejected request changes nothing.
AddItem(c, pid, qty) ==
    /\ pid # 0 /\ qty # 0
    /\ CartExists(c)
    /\ Len(cart_items) < MaxCartItems
    /\ cart_items' = Append(cart_items,
                            [cart_id |-> c, product_id |-> pid, quantity |-> qty])
    /\ UNCHANGED <<products, orders, order_items>>
    /\ UNCHANGED callVars
    /\ UNCHANGED <<cartVars, getReply, authVars>>

\* DELETE /carts/:cartId/products/:productId
RemoveItem(c, pid) ==
    /\ \E i \in 1..Len(cart_items) :
          cart_items[i].cart_id = c /\ cart_items[i].product_id = pid
    /\ cart_items' = DeleteCartProductRows(cart_items, c, pid)
    /\ UNCHANGED <<products, orders, order_items>>
    /\ UNCHANGED callVars
    /\ UNCHANGED <<cartVars, getReply, authVars>>

\* DELETE /carts/:cartId, first store call: the cart's items are deleted.
DeleteCartItems(c) ==
    /\ delPc = "idle"
    /\ cart_items' = DeleteCartRows(cart_items, c)
    /\ delPc' = "deleteCart"
    /\ delCart' = c
    /\ UNCHANGED <<products, orders, order_items, carts, getReply, authVars>>
    /\ UNCHANGED callVars

\* DeleteCartRow on a store that does not check the reference of cart_items.
DeleteCartRowNoForeignKey ==
    /\ delPc = "deleteCart"
    /\ carts' = IF CartExists(delCart)
                THEN [carts EXCEPT ![delCart] = [present |-> FALSE, user_id |-> 0]]
                ELSE carts
    /\ delPc' = "idle"
    /\ delCart' = 0
    /\ UNCHANGED <<getReply, authVars>>
    /\ UNCHANGED tables
    /\ UNCHANGED callVars

\* DELETE /carts/:cartId, second store call: the cart row is deleted and the
\* handler answers 200.  The store refuses while cart_items rows refer to it.
DeleteCartRow ==
    /\ delPc = "deleteCart"
    /\ SelectCartRows(cart_items, delCart) = <<>>
    /\ carts' = IF CartExists(delCart)
                THEN [carts EXCEPT ![delCart] = [present |-> FALSE, user_id |-> 0]]
                ELSE carts
    /\ delPc' = "idle"
    /\ delCart' = 0
    /\ UNCHANGED <<getReply, authVars>>
    /\ UNCHANGED tables
    /\ UNCHANGED callVars

\* DELETE /carts/:cartId, second store call returns an error.
DeleteCartRowError ==
    /\ delPc = "deleteCart"
    /\ delPc' = "idle"
    /\ delCart' = 0
    /\ UNCHANGED <<carts, getReply, authVars>>
    /\ UNCHANGED tables
    /\ UNCHANGED callVars

\* ---- GET /orders/:orderId (routes/orders.js) ----

\* GetOrderAnswer with errors of the store only: a query that matches no row
\* is answered 200.
GetOrderAnswerNoCheck(oid, storeError) ==
    IF storeError THEN "NotFoundError: Order not found" ELSE "200"

\* .single() gives an error when no row matches; every error is answered
\* with NotFoundError("Order not found").
GetOrderAnswer(oid, storeError) ==
    IF storeError \/ oid \notin 1..Len(orders)
    THEN "NotFoundError: Order not found"
    ELSE "200"

GetOrderRequest(oid, storeError) ==
    /\ getReply' = [orderId |-> oid, status |-> GetOrderAnswer(oid, storeError)]
    /\ UNCHANGED cartVars
    /\ UNCHANGED authVars
    /\ UNCHANGED tables
    /\ UNCHANGED callVars

\* ---- authenticate (auth/register.js, required as auth/middleware) ----

\* The bearer token of a request: none, one jwt.verify rejects, one it accepts.
Tokens == {"missing", "invalid", "valid"}

\* What authenticate does, as the calls of res...json() it makes (sends) and
\* whether it calls next(), which runs the guarded handler.
\*  - no token: `req.status(401)` is a call of undefined, req has no status
\*    method.  The TypeError leaves the middleware and Express gives it to
\*    the error handler, which answers; the 401 is never sent.
\*  - jwt.verify throws: the catch sends 401.
\*  - jwt.verify returns: req.user is set and next() is called.
AuthenticateAnswer(token) ==
    IF token = "missing"
    THEN [token |-> token, sends |-> <<"errorHandler: TypeError">>, nextCalled |-> FALSE]
    ELSE IF token = "invalid"
    THEN [token |-> token, sends |-> <<"401">>, nextCalled |-> FALSE]
    ELSE [token |-> token, sends |-> <<>>, nextCalled |-> TRUE]

Authenticate(token) ==
    /\ authReply' = AuthenticateAnswer(token)
    /\ UNCHANGED <<getReply, loginReply>>
    /\ UNCHANGED cartVars
    /\ UNCHANGED tables
    /\ UNCHANGED callVars

\* ---- login (auth/login.js) ----

\* req.body.email: absent, of no users row, of a users row.
Emails == {"missing", "unknown", "known"}
\* req.body.password: undefined, "", not the user's, the user's.
Passwords == {"undefined", "empty", "wrong", "right"}

\* !email || !password
MissingCredentials(email, password) ==
    email = "missing" \/ password \in {"undefined", "empty"}

\* res.status(code).json() inside the try block.  When a response was sent
\* before, json() throws (headers already sent) and the catch block makes its
\* own res.status(500).json().
TrySend(sent, code) ==
    IF sent = <<>> THEN <<code>> ELSE sent \o <<code, "500">>

\* res.status(500).json() of the catch block.
CatchSend(sent) == sent \o <<"500">>

\* The handler as the calls of res...json() it makes, whether it queried the
\* users table and whether it signed a token.  The 400 of the first check is
\* not followed by a return, so the handler goes on into the try block.
\* bcrypt.compare rejects an undefined password and answers false for "".
LoginAnswer(email, password, storeError) ==
    LET sent == IF MissingCredentials(email, password) THEN <<"400">> ELSE <<>>
        r == IF storeError
             THEN [sends |-> CatchSend(sent), token |-> FALSE]
             ELSE IF email # "known"
             THEN [sends |-> TrySend(sent, "401"), token |-> FALSE]
             ELSE IF password = "undefined"
             THEN [sends |-> CatchSend(sent), token |-> FALSE]
             ELSE IF password # "right"
             THEN [sends |-> TrySend(sent, "401"), token |-> FALSE]
             ELSE [sends |-> TrySend(sent, "200"), token |-> TRUE]
    IN [email |-> email, password |-> password, storeError |-> storeError,
        sends |-> r.sends, queried |-> TRUE, token |-> r.token]

Login(email, password, storeError) ==
    /\ loginReply' = LoginAnswer(email, password, storeError)
    /\ UNCHANGED <<getReply, authReply>>
    /\ UNCHANGED cartVars
    /\ UNCHANGED tables
    /\ UNCHANGED callVars

\* ---- POST /orders/:cartId (routes/orders.js) ----

Ended == {p \in Calls : pc[p] = "done"}

\* Requests take the slots in order.
NextSlot(p) == pc[p] = "idle" /\ \A q \in Calls : q < p => pc[q] # "idle"

\* AfterRead without the check of cartItems.length.
AfterReadNoEmptyCheck(items) ==
    IF HasNullProduct(items) THEN [pc |-> "done", outcome |-> "TypeError"]
    ELSE [pc |-> "insertOrder", outcome |-> "none"]

\* AfterRead with the TypeError of the reduce not caught: the request ends
\* with no answer.
AfterReadNoCatch(items) ==
    IF items = <<>> THEN [pc |-> "done", outcome |-> "BadRequestError: Cart is empty"]
    ELSE IF HasNullProduct(items) THEN [pc |-> "done", outcome |-> "none"]
    ELSE [pc |-> "insertOrder", outcome |-> "none"]

\* What the handler does with the rows it read: the empty-cart check, then
\* the reduce, which throws a TypeError on a null product.
AfterRead(items) ==
    IF items = <<>> THEN [pc |-> "done", outcome |-> "BadRequestError: Cart is empty"]
    ELSE IF HasNullProduct(items) THEN [pc |-> "done", outcome |-> "TypeError"]
    ELSE [pc |-> "insertOrder", outcome |-> "none"]

\* The request arrives and its select on cart_items returns rows.
ReadCart(p, c, u) ==
    /\ NextSlot(p)
    /\ LET items == SelectCartRows(cart_items, c)
           r == AfterRead(items)
       IN /\ cartItems' = [cartItems EXCEPT ![p] = IF r.pc = "done" THEN <<>> ELSE items]
          /\ pc' = [pc EXCEPT ![p] = r.pc]
          /\ outcome' = [outcome EXCEPT ![p] = r.outcome]
    /\ cartId' = [cartId EXCEPT ![p] = c]
    /\ userId' = [userId EXCEPT ![p] = u]
    /\ precededBy' = [precededBy EXCEPT ![p] = Ended]
    /\ UNCHANGED orderId
    /\ UNCHANGED tables
    /\ UNCHANGED <<cartVars, getReply, authVars>>

\* The select on cart_items returns an error.
ReadCartError(p, c, u) ==
    /\ NextSlot(p)
    /\ pc' = [pc EXCEPT ![p] = "done"]
    /\ outcome' = [outcome EXCEPT ![p] = "Error: cartError"]
    /\ cartId' = [cartId EXCEPT ![p] = c]
    /\ userId' = [userId EXCEPT ![p] = u]
    /\ precededBy' = [precededBy EXCEPT ![p] = Ended]
    /\ UNCHANGED <<cartItems, orderId>>
    /\ UNCHANGED tables
    /\ UNCHANGED <<cartVars, getReply, authVars>>

\* InsertOrder with the total computed from the prices at insert time.
InsertOrderCurrentPrices(p) ==
    /\ pc[p] = "insertOrder"
    /\ orders' = Append(orders,
                        [user_id |-> userId[p],
                         total_cost |-> TotalCost(
                            [i \in 1..Len(cartItems[p]) |->
                                [cartItems[p][i] EXCEPT
                                    !.product = JoinProduct(cartItems[p][i].product_id)]])])
    /\ orderId' = [orderId EXCEPT ![p] = Len(orders) + 1]
    /\ pc' = [pc EXCEPT ![p] = "insertItems"]
    /\ UNCHANGED <<products, cart_items, order_items>>
    /\ UNCHANGED <<cartId, userId, cartItems, outcome, precededBy>>
    /\ UNCHANGED <<cartVars, getReply, authVars>>

\* The insert into orders returns the new row.
InsertOrder(p) ==
    /\ pc[p] = "insertOrder"
    /\ orders' = Append(orders, [user_id |-> userId[p],
                                 total_cost |-> TotalCost(cartItems[p])])
    /\ orderId' = [orderId EXCEPT ![p] = Len(orders) + 1]
    /\ pc' = [pc EXCEPT ![p] = "insertItems"]
    /\ UNCHANGED <<products, cart_items, order_items>>
    /\ UNCHANGED <<cartId, userId, cartItems, outcome, precededBy>>
    /\ UNCHANGED <<cartVars, getReply, authVars>>

\* InsertOrderError with the cart cleared before the handler returns.
InsertOrderErrorClearsCart(p) ==
    /\ pc[p] = "insertOrder"
    /\ pc' = [pc EXCEPT ![p] = "done"]
    /\ outcome' = [outcome EXCEPT ![p] = "Error: orderError"]
    /\ cartItems' = [cartItems EXCEPT ![p] = <<>>]
    /\ cart_items' = DeleteCartRows(cart_items, cartId[p])
    /\ UNCHANGED <<products, orders, order_items>>
    /\ UNCHANGED <<cartId, userId, orderId, precededBy>>
    /\ UNCHANGED <<cartVars, getReply, authVars>>

\* InsertOrderError with orderError not checked: the handler goes on to the
\* order_items insert.
InsertOrderErrorGoesOn(p) ==
    /\ pc[p] = "insertOrder"
    /\ pc' = [pc EXCEPT ![p] = "insertItems"]
    /\ UNCHANGED tables
    /\ UNCHANGED <<cartId, userId, cartItems, orderId, outcome, precededBy>>
    /\ UNCHANGED <<cartVars, getReply, authVars>>

\* The insert into orders returns an error.
InsertOrderError(p) ==
    /\ pc[p] = "insertOrder"
    /\ pc' = [pc EXCEPT ![p] = "done"]
    /\ outcome' = [outcome EXCEPT ![p] = "Error: orderError"]
    /\ cartItems' = [cartItems EXCEPT ![p] = <<>>]
    /\ UNCHANGED tables
    /\ UNCHANGED <<cartId, userId, orderId, precededBy>>
    /\ UNCHANGED <<cartVars, getReply, authVars>>

\* The insert into order_items succeeds.
InsertOrderItems(p) ==
    /\ pc[p] = "insertItems"
    /\ order_items' = order_items \o OrderItemsOf(orderId[p], cartItems[p])
    /\ pc' = [pc EXCEPT ![p] = "clearCart"]
    /\ UNCHANGED <<products, cart_items, orders>>
    /\ UNCHANGED <<cartId, userId, cartItems, orderId, outcome, precededBy>>
    /\ UNCHANGED <<cartVars, getReply, authVars>>

\* InsertOrderItemsError with orderItemsError not checked: the handler goes on
\* to clear the cart.
InsertOrderItemsErrorIgnored(p, k) ==
    /\ pc[p] = "insertItems"
    /\ k \in 0..(Len(cartItems[p]) - 1)
    /\ order_items' = order_items \o
                      SubSeq(OrderItemsOf(orderId[p], cartItems[p]), 1, k)
    /\ pc' = [pc EXCEPT ![p] = "clearCart"]
    /\ UNCHANGED <<products, cart_items, orders>>
    /\ UNCHANGED <<cartId, userId, cartItems, orderId, outcome, precededBy>>
    /\ UNCHANGED <<cartVars, getReply, authVars>>

\* The insert into order_items returns an error.  The reply does not say how
\* many rows the store kept: any k rows short of all of them.
InsertOrderItemsError(p, k) ==
    /\ pc[p] = "insertItems"
    /\ k \in 0..(Len(cartItems[p]) - 1)
    /\ order_items' = order_items \o
                      SubSeq(OrderItemsOf(orderId[p], cartItems[p]), 1, k)
    /\ pc' = [pc EXCEPT ![p] = "done"]
    /\ outcome' = [outcome EXCEPT ![p] = "Error: orderItemsError"]
    /\ cartItems' = [cartItems EXCEPT ![p] = <<>>]
    /\ UNCHANGED <<products, cart_items, orders>>
    /\ UNCHANGED <<cartId, userId, orderId, precededBy>>
    /\ UNCHANGED <<cartVars, getReply, authVars>>

\* ClearCart with a delete that has no filter on cart_id.
ClearCartAllCarts(p) ==
    /\ pc[p] = "clearCart"
    /\ cart_items' = <<>>
    /\ pc' = [pc EXCEPT ![p] = "done"]
    /\ outcome' = [outcome EXCEPT ![p] = "201"]
    /\ UNCHANGED <<products, orders, order_items>>
    /\ UNCHANGED <<cartId, userId, cartItems, orderId, precededBy>>
    /\ UNCHANGED <<cartVars, getReply, authVars>>

\* ClearCart that deletes the cart row as well.
ClearCartAndCartRow(p) ==
    /\ pc[p] = "clearCart"
    /\ cart_items' = DeleteCartRows(cart_items, cartId[p])
    /\ carts' = IF CartExists(cartId[p])
                THEN [carts EXCEPT ![cartId[p]] = [present |-> FALSE, user_id |-> 0]]
                ELSE carts
    /\ pc' = [pc EXCEPT ![p] = "done"]
    /\ outcome' = [outcome EXCEPT ![p] = "201"]
    /\ UNCHANGED <<products, orders, order_items>>
    /\ UNCHANGED <<cartId, userId, cartItems, orderId, precededBy>>
    /\ UNCHANGED <<delPc, delCart, getReply, authVars>>

\* The delete on cart_items succeeds and the handler answers 201.
ClearCart(p) ==
    /\ pc[p] = "clearCart"
    /\ cart_items' = DeleteCartRows(cart_items, cartId[p])
    /\ pc' = [pc EXCEPT ![p] = "done"]
    /\ outcome' = [outcome EXCEPT ![p] = "201"]
    /\ UNCHANGED <<products, orders, order_items>>
    /\ UNCHANGED <<cartId, userId, cartItems, orderId, precededBy>>
    /\ UNCHANGED <<cartVars, getReply, authVars>>

\* The delete on cart_items returns an error.
ClearCartError(p) ==
    /\ pc[p] = "clearCart"
    /\ pc' = [pc EXCEPT ![p] = "done"]
    /\ outcome' = [outcome EXCEPT ![p] = "Error: clearCartError"]
    /\ cartItems' = [cartItems EXCEPT ![p] = <<>>]
    /\ UNCHANGED tables
    /\ UNCHANGED <<cartId, userId, orderId, precededBy>>
    /\ UNCHANGED <<cartVars, getReply, authVars>>



\* What the caller of a PlaceOrder request that has ended is given: 201 with
\* the order id, or the error passed to next().  For an error of a store call
\* that is new Error(<the store's message>): the handler adds nothing of its
\* own, so a failure of the store that has the same message at every call
\* (the store cannot be reached) gives the same error at every step.
StoreErrorOutcomes == {"Error: cartError", "Error: orderError",
                       "Error: orderItemsError", "Error: clearCartError"}

Response(p) ==
    IF outcome[p] = "201"
    THEN [status |-> "201", orderId |-> orderId[p], error |-> "none", message |-> "none"]
    ELSE IF outcome[p] \in StoreErrorOutcomes
    THEN [status |-> "error", orderId |-> 0, error |-> "Error", message |-> "store message"]
    ELSE [status |-> "error", orderId |-> 0, error |-> outcome[p], message |-> "none"]

Next ==
    \/ \E price \in Prices : CreateProduct(price)
    \/ \E id \in ProductIds, price \in Prices : UpdateProduct(id, price)
    \/ \E id \in ProductIds : DeleteProduct(id)
    \/ \E c \in CartIds, pid \in ProductIds, qty \in Quantities : AddItem(c, pid, qty)
    \/ \E c \in CartIds, pid \in ProductIds : RemoveItem(c, pid)
    \/ \E p \in Calls, c \in CartIds, u \in UserIds : ReadCart(p, c, u)
    \/ \E p \in Calls, c \in CartIds, u \in UserIds : ReadCartError(p, c, u)
    \/ \E p \in Calls : InsertOrder(p)
    \/ \E p \in Calls : InsertOrderError(p)
    \/ \E p \in Calls : InsertOrderItems(p)
    \/ \E p \in Calls, k \in 0..(MaxCartItems - 1) : InsertOrderItemsError(p, k)
    \/ \E p \in Calls : ClearCart(p)
    \/ \E p \in Calls : ClearCartError(p)
    \/ \E u \in UserIds : CreateCart(u)
    \/ \E c \in CartIds : DeleteCartItems(c)
    \/ DeleteCartRow
    \/ DeleteCartRowError

Spec == Init /\ [][Next]_vars

\* The API with GET /orders/:orderId requests, whose answers are recorded.
OrderIdInputs == 1..(MaxCalls + 1)

NextGet ==
    \/ Next
    \/ \E oid \in OrderIdInputs, storeError \in BOOLEAN : GetOrderRequest(oid, storeError)

SpecGet == Init /\ [][NextGet]_vars

\* The API with add-item requests whose quantity is negative.
NegativeQuantities == {0 - 1}

NextNeg ==
    \/ Next
    \/ \E c \in CartIds, pid \in ProductIds, qty \in NegativeQuantities :
          AddItem(c, pid, qty)

SpecNeg == Init /\ [][NextNeg]_vars

\* The authentication side of the API: login requests and requests given to
\* authenticate, next to the catalog handlers.  Neither login nor
\* authenticate reads or writes a table of the model.
NextAuth ==
    \/ \E token \in Tokens : Authenticate(token)
    \/ \E email \in Emails, password \in Passwords, storeError \in BOOLEAN :
          Login(email, password, storeError)
    \/ \E price \in Prices : CreateProduct(price)
    \/ \E id \in ProductIds, price \in Prices : UpdateProduct(id, price)
    \/ \E id \in ProductIds : DeleteProduct(id)

SpecAuth == Init /\ [][NextAuth]_vars

\* The API with carts of a user who is not the caller of any PlaceOrder.
OtherUsers == {MaxUsers + 1}

NextOwner ==
    \/ Next
    \/ \E u \in OtherUsers : CreateCart(u)

SpecOwner == Init /\ [][NextOwner]_vars

\* The API with a second cart.
SecondCart == MaxCarts + 1
WideCartIds == 1..SecondCart

NextTwoCarts ==
    \/ Next
    \/ \E u \in UserIds : CreateCartUpTo(u, SecondCart)
    \/ \E pid \in ProductIds, qty \in Quantities : AddItem(SecondCart, pid, qty)
    \/ \E pid \in ProductIds : RemoveItem(SecondCart, pid)
    \/ \E p \in Calls, u \in UserIds : ReadCart(p, SecondCart, u)
    \/ \E p \in Calls, u \in UserIds : ReadCartError(p, SecondCart, u)
    \/ DeleteCartItems(SecondCart)

SpecTwoCarts == Init /\ [][NextTwoCarts]_vars

\* The API whose store answers every call of a PlaceOrder request, with data
\* or with an error.
SpecLive ==
    /\ Init /\ [][Next]_vars
    /\ \A p \in Calls :
          /\ WF_vars(InsertOrder(p) \/ InsertOrderError(p))
          /\ WF_vars(InsertOrderItems(p)
                     \/ \E k \in 0..(MaxCartItems - 1) : InsertOrderItemsError(p, k))
          /\ WF_vars(ClearCart(p) \/ ClearCartError(p))

TypeOK ==
    /\ pc \in [Calls -> {"idle", "insertOrder", "insertItems", "clearCart", "done"}]
    /\ Len(cart_items) <= MaxCartItems
    /\ Len(orders) <= MaxCalls

\* ======================= properties =======================

IsPrefix(s, t) == Len(s) <= Len(t) /\ SubSeq(t, 1, Len(s)) = s

Started(p) == pc[p] # "idle"

\* Two requests overlap when neither had ended before the other began.
Overlap(p, q) == /\ p # q /\ Started(p) /\ Started(q)
                 /\ p \notin precededBy[q] /\ q \notin precededBy[p]

\* C1: two overlapping PlaceOrder requests on the same cart never both create
\* an order row.
C1_ExactlyOneOrder ==
    \A p, q \in Calls :
        (Overlap(p, q) /\ cartId[p] = cartId[q]) => ~(orderId[p] # 0 /\ orderId[q] # 0)

\* C2: a PlaceOrder request on a cart that an earlier request has checked out
\* with success answers with that order's id or with a conflict error, and
\* creates no order row.
C2_RetryIdempotent ==
    \A q \in Calls : \A p \in precededBy[q] :
        (/\ cartId[p] = cartId[q] /\ outcome[p] = "201"
         /\ pc[q] = "done" /\ outcome[q] # "Error: cartError")
        => /\ outcome[q] \in {"201", "ConflictError"}
           /\ orderId[q] \in {0, orderId[p]}

\* C3: the total_cost of the order row a request inserted is the sum of
\* quantity * price over the rows that request read, with the prices of that
\* read, whatever the products' prices have become since.
RECURSIVE SnapshotSum(_, _)
SnapshotSum(items, n) ==
    IF n = 0 THEN 0
    ELSE items[n].quantity * items[n].product.price + SnapshotSum(items, n - 1)

C3_TotalIsSnapshotSum ==
    \A p \in Calls :
        orderId[p] # 0
        => /\ orderId[p] \in 1..Len(orders)
           /\ pc[p] \in {"insertItems", "clearCart"} \/ outcome[p] = "201"
              => orders[orderId[p]].total_cost
                   = SnapshotSum(cartItems[p], Len(cartItems[p]))

\* A request holds an order whose cart has two rows, and the price of a
\* product it read has changed since.
C3_Witness ==
    \E p \in Calls :
        /\ pc[p] = "clearCart"
        /\ Len(cartItems[p]) >= 2
        /\ \E i \in 1..Len(cartItems[p]) :
              LET now == JoinProduct(cartItems[p][i].product_id)
              IN now.present /\ now.price # cartItems[p][i].product.price

\* C4: a PlaceOrder request whose read returns no cart item ends with
\* BadRequestError "Cart is empty", and writes no orders or order_items row.
C4_EmptyCartRejected ==
    /\ [][\A p \in Calls :
            (/\ pc[p] = "idle" /\ pc'[p] # "idle"
             /\ outcome'[p] # "Error: cartError"
             /\ SelectCartRows(cart_items, cartId'[p]) = <<>>)
            => /\ pc'[p] = "done"
               /\ outcome'[p] = "BadRequestError: Cart is empty"
               /\ orders' = orders /\ order_items' = order_items]_vars
    /\ [](\A p \in Calls :
            outcome[p] = "BadRequestError: Cart is empty"
            => pc[p] = "done" /\ orderId[p] = 0)

\* A request on an empty cart has ended while the store holds a product.
C4_Witness ==
    \E p \in Calls :
        /\ pc[p] = "done" /\ outcome[p] = "BadRequestError: Cart is empty"
        /\ Len(products) > 0

C6_RetryConverges ==
    \A q \in Calls : \A p \in precededBy[q] :
        (/\ cartId[p] = cartId[q]
         /\ outcome[p] = "Error: orderItemsError" /\ outcome[q] = "201")
        => /\ orderId[q] = orderId[p]
           /\ \A i, j \in 1..Len(OrderRows(orderId[p])) :
                 OrderRows(orderId[p])[i].product_id
                   = OrderRows(orderId[p])[j].product_id => i = j

\* C7: when a request failed in the cart clearing step, a later request on
\* the same cart creates no order row of its own.
C7_RetryOnlyClears ==
    \A q \in Calls : \A p \in precededBy[q] :
        (/\ cartId[p] = cartId[q]
         /\ outcome[p] = "Error: clearCartError" /\ Started(q))
        => orderId[q] = 0

\* C8: a request whose orders insert fails ends with that error, and no step
\* it took changed orders, order_items or cart_items.
C8_HeaderFailureNoEffect ==
    /\ [][\A p \in Calls :
            (/\ pc[p] \in {"idle", "insertOrder"} /\ pc'[p] # pc[p]
             /\ orderId'[p] = 0)
            => /\ orders' = orders /\ order_items' = order_items
               /\ cart_items' = cart_items]_vars
    /\ [][\A p \in Calls :
            (pc[p] = "insertOrder" /\ orderId'[p] = 0 /\ pc'[p] # pc[p])
            => pc'[p] = "done" /\ outcome'[p] = "Error: orderError"]_vars
    /\ [](\A p \in Calls :
            outcome[p] = "Error: orderError" => pc[p] = "done" /\ orderId[p] = 0)

\* The orders insert of a request failed and the cart still has its rows.
C8_Witness ==
    \E p \in Calls :
        /\ outcome[p] = "Error: orderError"
        /\ SelectCartRows(cart_items, cartId[p]) # <<>>

\* C9: a PlaceOrder request that reads a cart item whose product row is
\* absent ends with DanglingReferenceError and writes nothing.
C9_DanglingReference ==
    [][\A p \in Calls :
         (/\ pc[p] = "idle" /\ pc'[p] # "idle"
          /\ outcome'[p] # "Error: cartError"
          /\ HasNullProduct(SelectCartRows(cart_items, cartId'[p])))
         => /\ pc'[p] = "done"
            /\ outcome'[p] = "DanglingReferenceError"
            /\ orders' = orders /\ order_items' = order_items]_vars

\* C10: once an order item exists, the unit price GetOrder reports for it is
\* not changed by a later change of the product's price.
C10_UnitPriceFrozen ==
    [][\A o \in 1..Len(orders) :
         \A i \in 1..Len(GetOrder(o).order_items) :
            LET before == GetOrder(o).order_items[i].product
                after == GetOrder(o)'.order_items[i].product
            IN (before.present /\ after.present) => after.price = before.price]_vars

\* C11: the total_cost of every order whose request has ended is the sum of
\* unit price * quantity over the order's items as GET /orders/:orderId
\* reports them, and no step changes an order row or an order item.
C11_TotalIsItemsSum ==
    /\ [](\A p \in Calls :
            (pc[p] = "done" /\ orderId[p] # 0)
            => LET items == GetOrder(orderId[p]).order_items
               IN orders[orderId[p]].total_cost = SnapshotSum(items, Len(items)))
    /\ [][IsPrefix(orders, orders') /\ IsPrefix(order_items, order_items')]_vars

\* C12: the step in which a request answers 201 is its cart clearing step; the
\* order it names exists and has exactly one order item per cart item the
\* request read, with that item's product id and quantity, and the cart has
\* no item left.
C12_SuccessfulOrder ==
    [][\A p \in Calls :
         (outcome[p] # "201" /\ outcome'[p] = "201")
         => /\ pc[p] = "clearCart"
            /\ orderId'[p] = orderId[p]
            /\ orderId[p] \in 1..Len(orders')
            /\ Len(OrderRows(orderId[p])') = Len(cartItems[p])
            /\ \A i \in 1..Len(cartItems[p]) :
                  /\ OrderRows(orderId[p])'[i].order_id = orderId[p]
                  /\ OrderRows(orderId[p])'[i].product_id = cartItems[p][i].product_id
                  /\ OrderRows(orderId[p])'[i].quantity = cartItems[p][i].quantity
            /\ SelectCartRows(cart_items', cartId[p]) = <<>>]_vars

\* A request on a cart of two items has answered 201 and its order has as
\* many items.
C12_Witness ==
    \E p \in Calls :
        /\ outcome[p] = "201"
        /\ Len(cartItems[p]) >= 2
        /\ Len(OrderRows(orderId[p])) = Len(cartItems[p])

\* C13: a cart that a request has checked out holds no item ever after, and
\* no later request on it creates an order row.
C13_CheckedOutCartFrozen ==
    \A p \in Calls :
        outcome[p] = "201"
        => /\ SelectCartRows(cart_items, cartId[p]) = <<>>
           /\ \A q \in Calls :
                 (p \in precededBy[q] /\ cartId[q] = cartId[p]) => orderId[q] = 0

\* C14: a PlaceOrder request whose cartId names no cart row ends with a
\* not-found error, which is not the empty-cart error, and creates no order.
C14_CartNotFound ==
    [][\A p \in Calls :
         (/\ pc[p] = "idle" /\ pc'[p] # "idle"
          /\ outcome'[p] # "Error: cartError"
          /\ ~CartExists(cartId'[p]))
         => /\ pc'[p] = "done"
            /\ outcome'[p] = "NotFoundError: Cart not found"
            /\ orders' = orders]_vars

\* C15: a GET /orders/:orderId request for an id that no order row has is
\* answered with NotFoundError, and the request changes no table.
C15_UnknownOrderNotFound ==
    /\ []((getReply.status # "none" /\ getReply.orderId \notin 1..Len(orders))
          => getReply.status = "NotFoundError: Order not found")
    /\ [][getReply' # getReply
          => UNCHANGED <<products, cart_items, orders, order_items, carts>>]_vars

\* While orders exist, a request for an id beyond them was answered NotFound.
C15_Witness ==
    /\ Len(orders) >= 1
    /\ getReply.orderId > Len(orders)
    /\ getReply.status = "NotFoundError: Order not found"

\* C16: every row added to cart_items names a product that exists when the
\* row is added.
C16_AddItemChecksProduct ==
    [][Len(cart_items') > Len(cart_items)
       => JoinProduct(cart_items'[Len(cart_items')].product_id).present]_vars

\* C17: cart_items holds at most one row per (cart id, product id).
C17_OneRowPerCartProduct ==
    \A i, j \in 1..Len(cart_items) :
        (/\ cart_items[i].cart_id = cart_items[j].cart_id
         /\ cart_items[i].product_id = cart_items[j].product_id) => i = j

\* C18: every cart item has a quantity of at least 1 and every order a
\* total_cost of at least 0.
C18_PositiveQuantities ==
    /\ \A i \in 1..Len(cart_items) : cart_items[i].quantity >= 1
    /\ \A o \in 1..Len(orders) : orders[o].total_cost >= 0

\* C19: an order whose request ended in the order_items insert, short of some
\* of its items, carries an incomplete marker in the store.
IncompleteMarker(o) ==
    "status" \in DOMAIN orders[o] /\ orders[o].status = "incomplete"

C19_IncompleteMarked ==
    \A p \in Calls :
        (pc[p] = "done" /\ orderId[p] # 0 /\ outcome[p] = "Error: orderItemsError")
        => IncompleteMarker(orderId[p])

\* C20: a request of which a store call failed is not answered 201, and the
\* answer of one that failed before its order row existed differs from the
\* answer of one that failed after.
C20_ErrorsTellProgress ==
    \A p \in Calls :
        (pc[p] = "done" /\ outcome[p] \in StoreErrorOutcomes)
        => /\ Response(p).status # "201"
           /\ \A q \in Calls :
                 (/\ pc[q] = "done" /\ outcome[q] \in StoreErrorOutcomes
                  /\ orderId[p] = 0 /\ orderId[q] # 0)
                 => Response(p) # Response(q)

\* The rows of cart c in a cart_items table.
RowsOfCart(rows, c) == SelectSeq(rows, LAMBDA r : r.cart_id = c)

\* The request that takes a step of PlaceOrder, if the step is one.
Steps(p) == pc'[p] # pc[p]

\* C21: a PlaceOrder request on an existing cart of another user ends with
\* ForbiddenError, and every order row a request inserts has the user_id of
\* the owner of the request's cart.
C21_OwnershipChecked ==
    [][\A p \in Calls :
         /\ (/\ pc[p] = "idle" /\ pc'[p] # "idle"
             /\ outcome'[p] # "Error: cartError"
             /\ CartExists(cartId'[p])
             /\ carts[cartId'[p]].user_id # userId'[p])
            => (pc'[p] = "done" /\ outcome'[p] = "ForbiddenError")
         /\ (orderId'[p] # orderId[p] /\ CartExists(cartId[p]))
            => orders'[orderId'[p]].user_id = carts[cartId[p]].user_id]_vars

\* C22: a request without a token, or with a token jwt.verify rejects, is
\* answered by exactly one 401 and next() is not called for it.
C22_UnauthenticatedGets401 ==
    authReply.token \in {"missing", "invalid"}
    => (authReply.sends = <<"401">> /\ ~authReply.nextCalled)

\* C23: a PlaceOrder request makes its store calls in the order select on
\* cart_items, insert into orders, insert into order_items, delete on
\* cart_items; it goes on to the next call only when the one before wrote
\* what it was asked to and returned no error, and a request that has ended
\* makes no call.
C23_StepsInOrder ==
    [][\A p \in Calls : Steps(p) =>
         \/ /\ pc[p] = "idle" /\ pc'[p] \in {"insertOrder", "done"}
            /\ UNCHANGED tables
         \/ /\ pc[p] = "insertOrder" /\ pc'[p] = "insertItems"
            /\ outcome'[p] = "none"
            /\ Len(orders') = Len(orders) + 1 /\ orderId'[p] = Len(orders')
            /\ UNCHANGED <<products, cart_items, order_items>>
         \/ /\ pc[p] = "insertOrder" /\ pc'[p] = "done"
            /\ outcome'[p] = "Error: orderError"
            /\ UNCHANGED tables
         \/ /\ pc[p] = "insertItems" /\ pc'[p] = "clearCart"
            /\ outcome'[p] = "none"
            /\ order_items' = order_items \o OrderItemsOf(orderId[p], cartItems[p])
            /\ UNCHANGED <<products, cart_items, orders>>
         \/ /\ pc[p] = "insertItems" /\ pc'[p] = "done"
            /\ outcome'[p] = "Error: orderItemsError"
            /\ UNCHANGED <<products, cart_items, orders>>
         \/ /\ pc[p] = "clearCart" /\ pc'[p] = "done"
            /\ outcome'[p] \in {"201", "Error: clearCartError"}
            /\ outcome'[p] = "201" => RowsOfCart(cart_items', cartId[p]) = <<>>
            /\ UNCHANGED <<products, orders, order_items>>]_vars

\* One request answered 201 and one ended at a failed insert into orders.
C23_Witness ==
    \E p, q \in Calls : outcome[p] = "201" /\ outcome[q] = "Error: orderError"

\* C24: every cart_items row the clear step of a request deletes has an order
\* item of its own, of the same product and quantity, in the request's order.
C24_NoItemLost ==
    [][\A p \in Calls :
         (pc[p] = "clearCart" /\ outcome'[p] = "201")
         => LET deleted == RowsOfCart(cart_items, cartId[p])
                ord == OrderRows(orderId[p])
            IN \E f \in [1..Len(deleted) -> 1..Len(ord)] :
                  /\ \A i, j \in 1..Len(deleted) : f[i] = f[j] => i = j
                  /\ \A i \in 1..Len(deleted) :
                        /\ deleted[i].product_id = ord[f[i]].product_id
                        /\ deleted[i].quantity = ord[f[i]].quantity]_vars

\* C25: a step of a PlaceOrder request leaves the cart_items rows of every
\* other cart and the locals of every other request as they are, reads the
\* rows of its own cart only, and writes an order that is computed from its
\* own read alone; so requests on different carts have the effect they have
\* when run one after the other.
C25_OtherCartsUntouched ==
    [][\A p \in Calls : Steps(p) =>
         /\ \A c \in WideCartIds \ {cartId'[p]} :
               RowsOfCart(cart_items', c) = RowsOfCart(cart_items, c)
         /\ \A q \in Calls \ {p} :
               /\ pc'[q] = pc[q] /\ cartItems'[q] = cartItems[q]
               /\ orderId'[q] = orderId[q] /\ outcome'[q] = outcome[q]
         /\ (pc[p] = "idle" /\ pc'[p] # "done")
            => cartItems'[p] = SelectCartRows(cart_items, cartId'[p])
         /\ IsPrefix(orders, orders') /\ IsPrefix(order_items, order_items')
         /\ Len(orders') > Len(orders)
            => orders'[Len(orders')] = [user_id |-> userId[p],
                                        total_cost |-> TotalCost(cartItems[p])]
         /\ \A i \in (Len(order_items) + 1)..Len(order_items') :
               order_items'[i] = OrderItemsOf(orderId[p], cartItems[p])[i - Len(order_items)]
       ]_vars

\* Two requests on different carts overlapped and both answered 201, and the
\* first to end left the other cart's rows in place.
C25_Witness ==
    \E p, q \in Calls :
        /\ Overlap(p, q) /\ cartId[p] # cartId[q]
        /\ outcome[p] = "201" /\ pc[q] = "clearCart"
        /\ RowsOfCart(cart_items, cartId[q]) # <<>>

\* C26: a step of a PlaceOrder request changes neither products nor carts nor
\* an order or order item that exists; it adds at most one orders row for the
\* request, order items of that order only, and it deletes cart_items rows of
\* the request's cart only.
C26_PlaceOrderFrame ==
    [][\A p \in Calls : Steps(p) =>
         /\ products' = products
         /\ carts' = carts
         /\ IsPrefix(orders, orders') /\ Len(orders') <= Len(orders) + 1
         /\ orderId[p] # 0 => (orders' = orders /\ orderId'[p] = orderId[p])
         /\ IsPrefix(order_items, order_items')
         /\ \A i \in (Len(order_items) + 1)..Len(order_items') :
               orderId[p] # 0 /\ order_items'[i].order_id = orderId[p]
         /\ cart_items' \in {cart_items, DeleteCartRows(cart_items, cartId[p])}
       ]_vars

\* A second order was placed with success while the product, the cart and
\* the first order with its item were there.
C26_Witness ==
    /\ Len(orders) = 2 /\ outcome[2] = "201" /\ orderId[2] = 2
    /\ OrderRows(1) # <<>> /\ OrderRows(2) # <<>>
    /\ CartExists(1)
    /\ Len(products) >= 1 /\ products[1].present

\* C27: a PlaceOrder request that has begun ends, it has an outcome exactly
\* when it has ended, and its outcome never changes.
C27_OneOutcome ==
    /\ [](\A p \in Calls : (pc[p] = "done") <=> (outcome[p] # "none"))
    /\ [][\A p \in Calls : outcome[p] # "none" => outcome'[p] = outcome[p]]_vars
    /\ \A p \in Calls : (pc[p] # "idle") ~> (pc[p] = "done")

\* Both requests have ended, one with 201, one at the TypeError of the reduce.
C27_Witness ==
    \E p, q \in Calls :
        /\ pc[p] = "done" /\ outcome[p] = "201"
        /\ pc[q] = "done" /\ outcome[q] = "TypeError"

\* C28: GET /orders/:orderId answers NotFound only when no orders row has
\* the id.
C28_NotFoundOnlyWhenAbsent ==
    [][(getReply' # getReply
        /\ getReply'.status = "NotFoundError: Order not found")
       => getReply'.orderId \notin 1..Len(orders)]_vars

C30_LoginOneResponse ==
    loginReply.email # "none"
    => /\ Len(loginReply.sends) = 1
       /\ MissingCredentials(loginReply.email, loginReply.password)
          => (loginReply.sends = <<"400">> /\ ~loginReply.queried)
       /\ (/\ ~MissingCredentials(loginReply.email, loginReply.password)
           /\ ~loginReply.storeError
           /\ (loginReply.email = "unknown" \/ loginReply.password = "wrong"))
          => loginReply.sends = <<"401">>
       /\ loginReply.token
          => (loginReply.email = "known" /\ loginReply.password = "right")
====
